---- MODULE Spec2Model ----
(***************************************************************************)
(* State-machine model of the KoboldAI Horde broker classes                *)
(* (src/server_classes.py): WaitingPrompt, ProcessingGeneration,           *)
(* KAIServer, the indexes, User and Database.                              *)
(*                                                                         *)
(* Units.  Kudos are integers in thousandths of a kudos, so that           *)
(* round(x, 2) is a real operation (Round2).  Performances are integers in *)
(* tenths of a char per second.  Time is in whole seconds.                 *)
(*                                                                         *)
(* Every handler is written once, as a sequence of labelled steps over a   *)
(* state record (Step).  A specification either runs a handler to its end  *)
(* in one action (Run) or lets the threads take one step at a time.        *)
(***************************************************************************)
EXTENDS Integers, Sequences, FiniteSets, TLC

VARIABLES
    now,               \* datetime.now(), in seconds
    ticks,             \* how many times the clock has moved
    transfers,         \* how many transfers were requested
    users,             \* Database.users: oauth_id -> User
    servers,           \* Database.servers: name -> KAIServer
    wps,               \* every WaitingPrompt made so far; its id is its position
    wpIndex,           \* PromptsIndex._index: the ids, in insertion order
    gens,              \* every ProcessingGeneration made so far, by id
    pgIndex,           \* GenerationsIndex._index: the ids
    fulfilment_times,  \* Database.stats["fulfilment_times"]
    th,                \* the request-handler threads
    watch,             \* the check_for_stale thread of each prompt
    cg,                \* the arguments and the result of a can_generate call
    disk               \* the files of write_files_to_disk and how far it got

vars == <<now, ticks, transfers, users, servers, wps, wpIndex, gens, pgIndex,
          fulfilment_times, th, watch, cg, disk>>

(***************************************************************************)
(* Program constants                                                       *)
(***************************************************************************)
MaxN == 20
StaleTime == 600
WatchSleep == 10
ServerStaleTime == 300
UptimeRewardThreshold == 600
MaxPerformances == 20
MaxFulfilmentTimes == 10
DaySeconds == 86400
DefaultMaxLength == 80
DefaultMaxContentLength == 1024

(***************************************************************************)
(* Bounds of the model                                                     *)
(***************************************************************************)
MaxPrompts == 2
MaxGens == 2
MaxTicks == 1
MaxTransfers == 2

Users == {"anon", "alice", "carol"}
Workers == {"w1", "w2"}
Threads == {"t1", "t2"}
Models == {"m1", "m2"}
\* texts a worker posts: lengths 1 and 11 (no rounding tie arises for them)
Texts == {"a", "hello world"}
\* seconds that pass in one clock step while work is dispatched and settled
Durations == {1}
\* seconds that pass in one clock step while a prompt is left alone
WatchDurations == {1, 601}
\* the n a prompt requests
RequestedN == {1, 25}
\* kudos balances found in users.json at start-up (thousandths)
StartKudos == {5000, 100000}
\* amounts of a transfer (thousandths)
Amounts == {3000, 5000}

(***************************************************************************)
(* Arithmetic                                                              *)
(***************************************************************************)
\* nearest integer to n/d (d > 0), an exact tie going to the even neighbour
RoundDiv(n, d) ==
    LET q == n \div d
        r == n % d
    IN  IF 2 * r < d THEN q
        ELSE IF 2 * r > d THEN q + 1
        ELSE IF q % 2 = 0 THEN q ELSE q + 1

\* round(x, 2) of a kudos value in thousandths
Round2(x) == 10 * RoundDiv(x, 10)

\* timedelta.seconds of (later - earlier): the seconds within the day
Seconds(later, earlier) == (later - earlier) % DaySeconds

\* Database.stats["model_mulitpliers"], in thousandths
ModelMultiplier == [m \in Models |-> IF m = "m1" THEN 1000 ELSE 2750]

calculate_model_multiplier(model_name) == ModelMultiplier[model_name]

convert_chars_to_kudos(chars, model_name) ==
    10 * RoundDiv(chars * calculate_model_multiplier(model_name), 1000)

(***************************************************************************)
(* Records                                                                 *)
(***************************************************************************)
\* what a handler gave back to its caller: the value it returned (val, with
\* reason for a transfer) or the exception it raised (exc)
Result(op, id, val, reason, exc) ==
    [op |-> op, id |-> id, val |-> val, reason |-> reason, exc |-> exc]

NoRet == Result("", 0, 0, "", "")

IdleThread(ret) ==
    [pc |-> "idle", server |-> "", wp |-> 0, gen |-> 0, text |-> "",
     n |-> 0, chars |-> 0, kudos |-> 0, perf |-> 0, trim |-> FALSE,
     src |-> "", dst |-> "", amount |-> 0, ret |-> ret]

\* User.__init__ and User.create / create_anon, with the balance of users.json;
\* ledger is the sum of the deltas modify_kudos was called with (not a field
\* of the program)
NewUser(kudos) ==
    [kudos |-> kudos, ledger |-> kudos,
     kudos_details |-> [accumulated |-> kudos, gifted |-> 0, received |-> 0],
     contributions |-> [chars |-> 0, fulfillments |-> 0],
     usage |-> [chars |-> 0, requests |-> 0]]

\* KAIServer.__init__ and KAIServer.create; last_check_in is <<>> until the
\* first check_in sets the attribute
NewServer(user, name, softprompts) ==
    [user |-> user, id |-> name, softprompts |-> softprompts,
     contributions |-> 0, fulfilments |-> 0, kudos |-> 0,
     kudos_details |-> [generated |-> 0, uptime |-> 0],
     performances |-> <<>>, uptime |-> 0, last_reward_uptime |-> 0,
     last_check_in |-> <<>>, model |-> "", max_length |-> 0,
     max_content_length |-> 0]

\* WaitingPrompt.__init__
NewPrompt(user, n, models, srvs, softprompts, max_length, max_content_length, t) ==
    LET clamped == IF n > MaxN THEN MaxN ELSE n
    IN  [user |-> user, models |-> models, n |-> clamped, n_initial |-> clamped,
         max_length |-> max_length, max_content_length |-> max_content_length,
         total_usage |-> 0, processing_gens |-> <<>>, last_process_time |-> t,
         servers |-> srvs, softprompts |-> softprompts]

\* ProcessingGeneration.__init__
NewGeneration(owner, server, model, t) ==
    [owner |-> owner, server |-> server, model |-> model,
     generation |-> <<>>, start_time |-> t]

State ==
    [now |-> now, ticks |-> ticks, transfers |-> transfers, users |-> users, servers |-> servers,
     wps |-> wps, wpIndex |-> wpIndex, gens |-> gens, pgIndex |-> pgIndex,
     fulfilment_times |-> fulfilment_times, th |-> th, watch |-> watch]

Commit(s) ==
    /\ now' = s.now
    /\ ticks' = s.ticks
    /\ transfers' = s.transfers
    /\ users' = s.users
    /\ servers' = s.servers
    /\ wps' = s.wps
    /\ wpIndex' = s.wpIndex
    /\ gens' = s.gens
    /\ pgIndex' = s.pgIndex
    /\ fulfilment_times' = s.fulfilment_times
    /\ th' = s.th
    /\ watch' = s.watch

(***************************************************************************)
(* User                                                                    *)
(***************************************************************************)
User_modify_kudos(u, kudos, action) ==
    [u EXCEPT !.kudos = Round2(@ + kudos),
              !.ledger = @ + kudos,
              !.kudos_details[action] = Round2(@ + kudos)]

record_usage(u, chars, kudos) ==
    User_modify_kudos(
        [u EXCEPT !.usage.chars = @ + chars, !.usage.requests = @ + 1],
        -kudos, "accumulated")

record_contributions(u, chars, kudos) ==
    User_modify_kudos(
        [u EXCEPT !.contributions.chars = @ + chars,
                  !.contributions.fulfillments = @ + 1],
        kudos, "accumulated")

record_uptime(u, kudos) == User_modify_kudos(u, kudos, "accumulated")

(***************************************************************************)
(* KAIServer                                                               *)
(***************************************************************************)
Abs(x) == IF x < 0 THEN -x ELSE x

KAIServer_modify_kudos(sv, kudos, action) ==
    [sv EXCEPT !.kudos = Round2(@ + kudos),
               !.kudos_details[action] = Round2(@ + Abs(kudos))]

KAIServer_is_stale(sv, t) ==
    IF sv.last_check_in = <<>> THEN TRUE
    ELSE Seconds(t, sv.last_check_in[1]) > ServerStaleTime

\* round(multiplier / 2.75, 2), the kudos of one uptime reward
uptime_kudos(model) ==
    10 * RoundDiv(calculate_model_multiplier(model) * 100, 2750)

\* sp in sp_name
IsSubstring(sp, sp_name) ==
    \E i \in 1..(Len(sp_name) - Len(sp) + 1) :
        SubSeq(sp_name, i, i + Len(sp) - 1) = sp

\* the inner loop of can_generate over self.softprompts, from index j
RECURSIVE MatchName(_, _, _)
MatchName(sp, names, j) ==
    IF j > Len(names) THEN FALSE
    ELSE IF IsSubstring(sp, names[j]) THEN TRUE
    ELSE MatchName(sp, names, j + 1)

\* the outer loop of can_generate over waiting_prompt.softprompts, from index
\* i, with the value matching_softprompt has so far
RECURSIVE MatchSoftprompts(_, _, _, _)
MatchSoftprompts(sps, names, i, found) ==
    IF i > Len(sps) THEN found
    ELSE IF sps[i] = "" THEN TRUE
    ELSE MatchSoftprompts(sps, names, i + 1, found \/ MatchName(sps[i], names, 1))

\* can_generate with the max_length test off by one
can_generate_strict(sv, wp) ==
    LET r0 == [is_matching |-> TRUE, skipped_reason |-> "None"]
        r1 == IF Cardinality(wp.servers) >= 1 /\ sv.id \notin wp.servers
              THEN [is_matching |-> FALSE, skipped_reason |-> "server_id"] ELSE r0
        r2 == IF Cardinality(wp.models) >= 1 /\ sv.model \notin wp.models
              THEN [is_matching |-> FALSE, skipped_reason |-> "models"] ELSE r1
        r3 == IF sv.max_content_length < wp.max_content_length
              THEN [is_matching |-> FALSE, skipped_reason |-> "max_content_length"]
              ELSE r2
        r4 == IF sv.max_length <= wp.max_length
              THEN [is_matching |-> FALSE, skipped_reason |-> "max_length"] ELSE r3
    IN  IF ~MatchSoftprompts(wp.softprompts, sv.softprompts, 1, FALSE)
        THEN [is_matching |-> FALSE, skipped_reason |-> "matching_softprompt"]
        ELSE r4

can_generate(sv, wp) ==
    LET r0 == [is_matching |-> TRUE, skipped_reason |-> "None"]
        r1 == IF Cardinality(wp.servers) >= 1 /\ sv.id \notin wp.servers
              THEN [is_matching |-> FALSE, skipped_reason |-> "server_id"] ELSE r0
        r2 == IF Cardinality(wp.models) >= 1 /\ sv.model \notin wp.models
              THEN [is_matching |-> FALSE, skipped_reason |-> "models"] ELSE r1
        r3 == IF sv.max_content_length < wp.max_content_length
              THEN [is_matching |-> FALSE, skipped_reason |-> "max_content_length"]
              ELSE r2
        r4 == IF sv.max_length < wp.max_length
              THEN [is_matching |-> FALSE, skipped_reason |-> "max_length"] ELSE r3
    IN  IF ~MatchSoftprompts(wp.softprompts, sv.softprompts, 1, FALSE)
        THEN [is_matching |-> FALSE, skipped_reason |-> "matching_softprompt"]
        ELSE r4

\* the reward test of check_in taken as: uptime has reached the threshold
reward_due_at_threshold(uptime, last_reward_uptime) ==
    uptime - last_reward_uptime >= UptimeRewardThreshold

\* if self.uptime - self.last_reward_uptime > self.uptime_reward_threshold
reward_due(uptime, last_reward_uptime) ==
    uptime - last_reward_uptime > UptimeRewardThreshold

check_in(s, w, model, max_length, max_content_length, softprompts) ==
    LET sv == s.servers[w]
        up == sv.uptime + Seconds(s.now, sv.last_check_in[1])
        kudos == uptime_kudos(model)
        reward == reward_due(up, sv.last_reward_uptime)
        s1 == IF KAIServer_is_stale(sv, s.now)
              THEN [s EXCEPT !.servers[w].last_reward_uptime = sv.uptime]
              ELSE IF reward
              THEN [s EXCEPT
                      !.servers[w] = [KAIServer_modify_kudos(sv, kudos, "uptime")
                                        EXCEPT !.uptime = up,
                                               !.last_reward_uptime = up],
                      !.users[sv.user] = record_uptime(@, kudos)]
              ELSE [s EXCEPT !.servers[w].uptime = up]
    IN  [s1 EXCEPT !.servers[w].last_check_in = <<s.now>>,
                   !.servers[w].model = model,
                   !.servers[w].max_content_length = max_content_length,
                   !.servers[w].max_length = max_length,
                   !.servers[w].softprompts = softprompts]

\* KAIServer.create and Database.register_new_server
create_server(s, w, user, softprompts) ==
    [s EXCEPT !.servers = (w :> NewServer(user, w, softprompts)) @@ @]

(***************************************************************************)
(* WaitingPrompt, ProcessingGeneration and the indexes                     *)
(***************************************************************************)
needs_gen(wp) == wp.n > 0

ProcessingGeneration_is_completed(gen) ==
    gen.generation # <<>> /\ gen.generation[1] # ""

WaitingPrompt_is_stale(wp, t) == Seconds(t, wp.last_process_time) > StaleTime

\* Index.del_item on the prompts index (a dict, which keeps insertion order)
del_item(index, id) ==
    LET Keep(x) == x # id IN SelectSeq(index, Keep)

InIndex(index, id) == \E i \in 1..Len(index) : index[i] = id

SubmitterKudos(s, p) == s.users[s.wps[p].user].kudos

\* an insertion that puts x in front of the entries with an equal key
InsertBeforeEqual(s, sorted, x) ==
    LET notLarger == {i \in 1..Len(sorted) :
                          SubmitterKudos(s, sorted[i]) <= SubmitterKudos(s, x)}
        at == IF notLarger = {} THEN Len(sorted) + 1
              ELSE CHOOSE i \in notLarger : \A j \in notLarger : i <= j
    IN  SubSeq(sorted, 1, at - 1) \o <<x>> \o SubSeq(sorted, at, Len(sorted))

\* one step of a stable descending sort: x goes behind every entry whose key
\* is not smaller than its own
InsertByKudos(s, sorted, x) ==
    LET smaller == {i \in 1..Len(sorted) :
                        SubmitterKudos(s, sorted[i]) < SubmitterKudos(s, x)}
        at == IF smaller = {} THEN Len(sorted) + 1
              ELSE CHOOSE i \in smaller : \A j \in smaller : i <= j
    IN  SubSeq(sorted, 1, at - 1) \o <<x>> \o SubSeq(sorted, at, Len(sorted))

\* sorted(values, key=lambda x: x.user.kudos, reverse=True)
RECURSIVE SortedByKudos(_, _)
SortedByKudos(s, index) ==
    IF index = <<>> THEN <<>>
    ELSE InsertByKudos(s, SortedByKudos(s, SubSeq(index, 1, Len(index) - 1)),
                       index[Len(index)])

get_waiting_wp_by_kudos(s) ==
    LET Needs(p) == needs_gen(s.wps[p])
    IN  SelectSeq(SortedByKudos(s, s.wpIndex), Needs)

\* WaitingPrompt.__init__ and activate: the prompt enters the index and its
\* staleness watcher starts
activate(s, user, n, models, srvs, softprompts, max_length, max_content_length) ==
    LET p == Len(s.wps) + 1
    IN  [s EXCEPT
           !.wps = Append(@, NewPrompt(user, n, models, srvs, softprompts,
                                       max_length, max_content_length, s.now)),
           !.wpIndex = Append(@, p),
           !.watch = Append(@, [pc |-> "check", wake |-> 0, i |-> 0])]


(***************************************************************************)
(* Handlers, one labelled step per statement.  t is the thread that runs   *)
(* the handler; s.th[t] holds its position and its local variables.        *)
(***************************************************************************)
Goto(s, t, label) == [s EXCEPT !.th[t].pc = label]

Return(s, t, ret) == [s EXCEPT !.th[t] = IdleThread(ret)]

\* --- a worker asks for work: the matcher, then start_generation ----------

\* the request handler's loop over get_waiting_wp_by_kudos(): the first
\* prompt the worker can generate
pop_match(s, t) ==
    LET w == s.th[t].server
        q == get_waiting_wp_by_kudos(s)
        ok == {i \in 1..Len(q) : can_generate(s.servers[w], s.wps[q[i]]).is_matching}
    IN  IF ok = {} THEN Return(s, t, Result("pop", 0, 0, "", ""))
        ELSE LET first == CHOOSE i \in ok : \A j \in ok : i <= j
             IN  [s EXCEPT !.th[t].wp = q[first], !.th[t].pc = "sg_check"]

\* if self.n <= 0: return
sg_check(s, t) ==
    LET p == s.th[t].wp
    IN  IF s.wps[p].n <= 0
        THEN Return(s, t, Result("start_generation", p, 0, "", ""))
        ELSE Goto(s, t, "sg_new")

\* new_gen = ProcessingGeneration(self, self._processing_generations, server)
sg_new(s, t) ==
    LET p == s.th[t].wp
        w == s.th[t].server
        g == Len(s.gens) + 1
    IN  [s EXCEPT !.gens = Append(@, NewGeneration(p, w, s.servers[w].model, s.now)),
                  !.pgIndex = @ \cup {g},
                  !.th[t].gen = g,
                  !.th[t].pc = "sg_append"]

\* self.processing_gens.append(new_gen)
sg_append(s, t) ==
    [s EXCEPT !.wps[s.th[t].wp].processing_gens = Append(@, s.th[t].gen),
              !.th[t].pc = "sg_load_n"]

\* self.n -= 1, the read
sg_load_n(s, t) ==
    [s EXCEPT !.th[t].n = s.wps[s.th[t].wp].n, !.th[t].pc = "sg_store_n"]

\* self.n -= 1, the write
sg_store_n(s, t) ==
    [s EXCEPT !.wps[s.th[t].wp].n = s.th[t].n - 1, !.th[t].pc = "sg_refresh"]

\* self.refresh() and the return of the dispatch record
sg_refresh(s, t) ==
    Return([s EXCEPT !.wps[s.th[t].wp].last_process_time = s.now], t,
           Result("start_generation", s.th[t].gen, 1, "", ""))

\* --- a worker posts a result: the lookup, then set_generation ------------

\* Index.get_item: a generation that is not in the index is not settled
post_lookup(s, t) ==
    IF s.th[t].gen \in s.pgIndex THEN Goto(s, t, "set_check")
    ELSE Return(s, t, Result("get_item", s.th[t].gen, 0, "", ""))

\* if self.is_completed(): return(0)
set_check(s, t) ==
    IF ProcessingGeneration_is_completed(s.gens[s.th[t].gen])
    THEN Return(s, t, Result("set_generation", s.th[t].gen, 0, "", ""))
    ELSE Goto(s, t, "set_store")

\* set_store pricing the text by the model the worker declares now
set_store_current_model(s, t) ==
    LET g == s.th[t].gen
        chars == Len(s.th[t].text)
    IN  [s EXCEPT !.gens[g].generation = <<s.th[t].text>>,
                  !.th[t].chars = chars,
                  !.th[t].kudos =
                      convert_chars_to_kudos(chars, s.servers[s.gens[g].server].model),
                  !.th[t].pc = "rc_perf"]

\* self.generation = generation; chars; kudos
set_store(s, t) ==
    LET g == s.th[t].gen
        chars == Len(s.th[t].text)
    IN  [s EXCEPT !.gens[g].generation = <<s.th[t].text>>,
                  !.th[t].chars = chars,
                  !.th[t].kudos = convert_chars_to_kudos(chars, s.gens[g].model),
                  !.th[t].pc = "rc_perf"]

\* seconds_taken and perf = round(chars / seconds_taken, 1)
rc_perf(s, t) ==
    LET seconds_taken == Seconds(s.now, s.gens[s.th[t].gen].start_time)
    IN  IF seconds_taken = 0
        THEN Return(s, t, Result("set_generation", s.th[t].gen, 0, "",
                                 "ZeroDivisionError"))
        ELSE [s EXCEPT !.th[t].perf = RoundDiv(10 * s.th[t].chars, seconds_taken),
                       !.th[t].pc = "rc_user"]

\* self.user.record_contributions(chars, kudos)
rc_user(s, t) ==
    LET u == s.servers[s.gens[s.th[t].gen].server].user
    IN  [s EXCEPT !.users[u] = record_contributions(@, s.th[t].chars, s.th[t].kudos),
                  !.th[t].pc = "rc_kudos"]

\* self.modify_kudos(kudos, 'generated')
rc_kudos(s, t) ==
    [s EXCEPT !.servers[s.gens[s.th[t].gen].server] =
                  KAIServer_modify_kudos(@, s.th[t].kudos, "generated"),
              !.th[t].pc = "rf_check"]

\* record_fulfilment: if len(self.stats["fulfilment_times"]) >= 10
rf_check(s, t) ==
    IF Len(s.fulfilment_times) >= MaxFulfilmentTimes
    THEN Goto(s, t, "rf_del") ELSE Goto(s, t, "rf_append")

\* record_fulfilment: del self.stats["fulfilment_times"][0]
rf_del(s, t) ==
    IF s.fulfilment_times = <<>>
    THEN Return(s, t, Result("set_generation", s.th[t].gen, 0, "", "IndexError"))
    ELSE [s EXCEPT !.fulfilment_times = Tail(@), !.th[t].pc = "rf_append"]

\* record_fulfilment: self.stats["fulfilment_times"].append(token_per_sec)
rf_append(s, t) ==
    [s EXCEPT !.fulfilment_times = Append(@, s.th[t].perf),
              !.th[t].pc = "rc_counts"]

\* self.contributions += chars; self.fulfilments += 1
rc_counts(s, t) ==
    LET w == s.gens[s.th[t].gen].server
    IN  [s EXCEPT !.servers[w].contributions = @ + s.th[t].chars,
                  !.servers[w].fulfilments = @ + 1,
                  !.th[t].pc = "rc_append"]

\* self.performances.append(perf)
rc_append(s, t) ==
    [s EXCEPT !.servers[s.gens[s.th[t].gen].server].performances =
                  Append(@, s.th[t].perf),
              !.th[t].pc = "rc_trim"]

\* if len(self.performances) > 20: del self.performances[0]
rc_trim(s, t) ==
    LET w == s.gens[s.th[t].gen].server
    IN  IF Len(s.servers[w].performances) > MaxPerformances
        THEN [s EXCEPT !.servers[w].performances = Tail(@), !.th[t].pc = "ru_total"]
        ELSE Goto(s, t, "ru_total")

\* WaitingPrompt.record_usage: self.total_usage += chars
ru_total(s, t) ==
    [s EXCEPT !.wps[s.gens[s.th[t].gen].owner].total_usage = @ + s.th[t].chars,
              !.th[t].pc = "ru_user"]

\* WaitingPrompt.record_usage: self.user.record_usage(chars, kudos)
ru_user(s, t) ==
    LET u == s.wps[s.gens[s.th[t].gen].owner].user
    IN  [s EXCEPT !.users[u] = record_usage(@, s.th[t].chars, s.th[t].kudos),
                  !.th[t].pc = "ru_refresh"]

\* WaitingPrompt.record_usage: self.refresh(); set_generation: return(chars)
ru_refresh(s, t) ==
    Return([s EXCEPT !.wps[s.gens[s.th[t].gen].owner].last_process_time = s.now],
           t, Result("set_generation", s.th[t].gen, s.th[t].chars, "", ""))

\* --- Database.transfer_kudos ----------------------------------------------

\* if amount > source_user.kudos: return([0,'Not enough kudos.'])
tk_check(s, t) ==
    IF s.th[t].amount > s.users[s.th[t].src].kudos
    THEN Return(s, t, Result("transfer_kudos", 0, 0, "Not enough kudos.", ""))
    ELSE Goto(s, t, "tk_debit")

\* source_user.modify_kudos(-amount, 'gifted')
tk_debit(s, t) ==
    [s EXCEPT !.users[s.th[t].src] = User_modify_kudos(@, -s.th[t].amount, "gifted"),
              !.th[t].pc = "tk_credit"]

\* dest_user.modify_kudos(amount, 'received'); return([amount,'OK'])
tk_credit(s, t) ==
    Return([s EXCEPT !.users[s.th[t].dst] =
                         User_modify_kudos(@, s.th[t].amount, "received")],
           t, Result("transfer_kudos", 0, s.th[t].amount, "OK", ""))

\* --- transfer_kudos with the statements of User.modify_kudos apart ---------

\* self.kudos = round(self.kudos + kudos, 2), the read of self.kudos
mk_load(s, t, user, next) ==
    [s EXCEPT !.th[t].kudos = s.users[user].kudos, !.th[t].pc = next]

\* self.kudos = round(self.kudos + kudos, 2), the write
mk_store(s, t, user, kudos, next) ==
    [s EXCEPT !.users[user].kudos = Round2(s.th[t].kudos + kudos),
              !.users[user].ledger = @ + kudos,
              !.th[t].pc = next]

\* self.kudos_details[action] = round(self.kudos_details.get(action,0) + kudos, 2)
mk_details(s, t, user, kudos, action, next) ==
    [s EXCEPT !.users[user].kudos_details[action] = Round2(@ + kudos),
              !.th[t].pc = next]

\* if amount > source_user.kudos: return([0,'Not enough kudos.'])
tkf_check(s, t) ==
    IF s.th[t].amount > s.users[s.th[t].src].kudos
    THEN Return(s, t, Result("transfer_kudos", 0, 0, "Not enough kudos.", ""))
    ELSE Goto(s, t, "tkf_debit_load")

\* return([amount,'OK'])
tkf_return(s, t) == Return(s, t, Result("transfer_kudos", 0, s.th[t].amount, "OK", ""))

\* the statement thread t is at
Step(s, t) ==
    LET pc == s.th[t].pc
    IN  CASE pc = "pop_match" -> pop_match(s, t)
          [] pc = "sg_check" -> sg_check(s, t)
          [] pc = "sg_new" -> sg_new(s, t)
          [] pc = "sg_append" -> sg_append(s, t)
          [] pc = "sg_load_n" -> sg_load_n(s, t)
          [] pc = "sg_store_n" -> sg_store_n(s, t)
          [] pc = "sg_refresh" -> sg_refresh(s, t)
          [] pc = "post_lookup" -> post_lookup(s, t)
          [] pc = "set_check" -> set_check(s, t)
          [] pc = "set_store" -> set_store(s, t)
          [] pc = "rc_perf" -> rc_perf(s, t)
          [] pc = "rc_user" -> rc_user(s, t)
          [] pc = "rc_kudos" -> rc_kudos(s, t)
          [] pc = "rf_check" -> rf_check(s, t)
          [] pc = "rf_del" -> rf_del(s, t)
          [] pc = "rf_append" -> rf_append(s, t)
          [] pc = "rc_counts" -> rc_counts(s, t)
          [] pc = "rc_append" -> rc_append(s, t)
          [] pc = "rc_trim" -> rc_trim(s, t)
          [] pc = "ru_total" -> ru_total(s, t)
          [] pc = "ru_user" -> ru_user(s, t)
          [] pc = "ru_refresh" -> ru_refresh(s, t)
          [] pc = "tk_check" -> tk_check(s, t)
          [] pc = "tk_debit" -> tk_debit(s, t)
          [] pc = "tk_credit" -> tk_credit(s, t)
          [] pc = "tkf_check" -> tkf_check(s, t)
          [] pc = "tkf_debit_load" -> mk_load(s, t, s.th[t].src, "tkf_debit_store")
          [] pc = "tkf_debit_store" ->
                 mk_store(s, t, s.th[t].src, -s.th[t].amount, "tkf_debit_details")
          [] pc = "tkf_debit_details" ->
                 mk_details(s, t, s.th[t].src, -s.th[t].amount, "gifted",
                            "tkf_credit_load")
          [] pc = "tkf_credit_load" -> mk_load(s, t, s.th[t].dst, "tkf_credit_store")
          [] pc = "tkf_credit_store" ->
                 mk_store(s, t, s.th[t].dst, s.th[t].amount, "tkf_credit_details")
          [] pc = "tkf_credit_details" ->
                 mk_details(s, t, s.th[t].dst, s.th[t].amount, "received",
                            "tkf_return")
          [] pc = "tkf_return" -> tkf_return(s, t)

\* the handler of thread t run to its return with no other thread in between
RECURSIVE Run(_, _)
Run(s, t) == IF s.th[t].pc = "idle" THEN s ELSE Run(Step(s, t), t)

\* the entry of each handler
begin_pop(s, t, w) ==
    [s EXCEPT !.th[t] = [IdleThread(NoRet) EXCEPT !.pc = "pop_match", !.server = w]]

begin_post(s, t, g, text) ==
    [s EXCEPT !.th[t] = [IdleThread(NoRet) EXCEPT !.pc = "post_lookup", !.gen = g,
                                                  !.text = text]]

begin_transfer(s, t, src, dst, amount) ==
    [s EXCEPT !.transfers = @ + 1,
              !.th[t] = [IdleThread(NoRet) EXCEPT !.pc = "tk_check", !.src = src,
                                                  !.dst = dst, !.amount = amount]]

(***************************************************************************)
(* The staleness watcher of prompt p (WaitingPrompt.check_for_stale)       *)
(***************************************************************************)
\* if self.is_stale(): ... else time.sleep(10)
w_check(s, p) ==
    IF WaitingPrompt_is_stale(s.wps[p], s.now)
    THEN [s EXCEPT !.watch[p] = [pc |-> "del_gens", wake |-> 0, i |-> 1]]
    ELSE [s EXCEPT !.watch[p] = [pc |-> "sleep", wake |-> s.now + WatchSleep, i |-> 0]]

\* delete: for gen in self.processing_gens: gen.delete()
w_del_gens(s, p) ==
    LET i == s.watch[p].i
        pg == s.wps[p].processing_gens
    IN  IF i > Len(pg) THEN [s EXCEPT !.watch[p].pc = "del_item"]
        ELSE IF pg[i] \notin s.pgIndex THEN [s EXCEPT !.watch[p].pc = "KeyError"]
        ELSE [s EXCEPT !.pgIndex = @ \ {pg[i]}, !.watch[p].i = i + 1]

\* delete: self._waiting_prompts.del_item(self)
w_del_item(s, p) ==
    IF ~InIndex(s.wpIndex, p) THEN [s EXCEPT !.watch[p].pc = "KeyError"]
    ELSE [s EXCEPT !.wpIndex = del_item(@, p),
                   !.watch[p] = [pc |-> "done", wake |-> 0, i |-> 0]]

WatcherRunnable(s, p) ==
    \/ s.watch[p].pc \in {"check", "del_gens", "del_item"}
    \/ s.watch[p].pc = "sleep" /\ s.now >= s.watch[p].wake

WatcherStep(s, p) ==
    LET pc == s.watch[p].pc
    IN  CASE pc \in {"check", "sleep"} -> w_check(s, p)
          [] pc = "del_gens" -> w_del_gens(s, p)
          [] pc = "del_item" -> w_del_item(s, p)

\* one pass of the watcher's loop with no other thread in between
RECURSIVE WatcherRun(_, _)
WatcherRun(s, p) ==
    LET s1 == WatcherStep(s, p)
    IN  IF s1.watch[p].pc \in {"sleep", "done", "KeyError"} THEN s1
        ELSE WatcherRun(s1, p)

\* the clock
tick(s, d) == [s EXCEPT !.now = @ + d, !.ticks = @ + 1]


(***************************************************************************)
(* Initial states                                                          *)
(***************************************************************************)
\* the user that registers each worker
Owner == [w \in Workers |-> IF w = "w1" THEN "alice" ELSE "anon"]

\* the rolling statistics found in stats.json: none, or one short of full
StartFulfilmentTimes == {<<>>, [i \in 1..(MaxFulfilmentTimes - 1) |-> 10]}

\* Database.__init__: users.json and stats.json are loaded (k is carol's
\* balance, ft the fulfilment times); no worker and no prompt yet
Loaded(k, ft) ==
    [now |-> 0, ticks |-> 0, transfers |-> 0,
     users |-> [u \in Users |-> IF u = "anon" THEN NewUser(0)
                                ELSE IF u = "alice" THEN NewUser(5000)
                                ELSE NewUser(k)],
     servers |-> <<>>, wps |-> <<>>, wpIndex |-> <<>>, gens |-> <<>>,
     pgIndex |-> {}, fulfilment_times |-> ft,
     th |-> [t \in Threads |-> IdleThread(NoRet)], watch |-> <<>>]

\* no can_generate call is being looked at
NoCall == [sv |-> NewServer("anon", "w1", <<>>),
           wp |-> NewPrompt("anon", 1, {}, {}, <<>>, 0, 0, 0),
           called |-> FALSE, is_matching |-> FALSE, skipped_reason |-> "None"]

\* db/ holds no file yet and the writer thread has not started a pass
NoFiles == [pc |-> "wf_servers", exc |-> "", written |-> FALSE,
            servers |-> <<>>, stats |-> <<>>, users |-> <<>>]

StartBroker(s) ==
    /\ now = s.now
    /\ ticks = s.ticks
    /\ transfers = s.transfers
    /\ users = s.users
    /\ servers = s.servers
    /\ wps = s.wps
    /\ wpIndex = s.wpIndex
    /\ gens = s.gens
    /\ pgIndex = s.pgIndex
    /\ fulfilment_times = s.fulfilment_times
    /\ th = s.th
    /\ watch = s.watch
    /\ disk = NoFiles

Start(s) == StartBroker(s) /\ cg = NoCall

Init == \E k \in StartKudos : Start(Loaded(k, <<>>))

\* worker w has registered and checked in with model
Joined(s, w, model) ==
    check_in(create_server(s, w, Owner[w], <<>>), w, model,
             DefaultMaxLength, DefaultMaxContentLength, <<>>)

\* user has submitted a prompt for n generations that any worker may serve
Submitted(s, user, n) ==
    activate(s, user, n, {}, {}, <<"">>, DefaultMaxLength, DefaultMaxContentLength)

\* worker w has asked for work, the handler running alone
Popped(s, w) == Run(begin_pop(s, "t1", w), "t1")

\* both workers are live, alice and carol each wait for generations
InitDispatch ==
    \E k \in StartKudos, n \in RequestedN :
        Start(Submitted(Submitted(Joined(Joined(Loaded(k, <<>>), "w1", "m1"),
                                         "w2", "m2"),
                                  "alice", n),
                        "carol", 1))

\* carol's prompt has one generation at each worker, started a second ago
InitSettle ==
    \E ft \in StartFulfilmentTimes \ {<<>>} :
        Start(tick(Popped(Popped(Submitted(Joined(Joined(Loaded(5000, ft), "w1", "m1"),
                                                  "w2", "m2"),
                                           "carol", 25),
                                 "w1"),
                          "w2"),
                   1))

\* alice's prompt has one generation at worker w1, just started
InitWatch ==
    Start(Popped(Submitted(Joined(Loaded(5000, <<>>), "w1", "m1"), "alice", 25), "w1"))

(***************************************************************************)
(* Actions                                                                 *)
(***************************************************************************)
Idle(t) == th[t].pc = "idle"

Quiescent == \A t \in Threads : Idle(t)

\* a user submits a prompt
SubmitPrompt ==
    /\ Len(wps) < MaxPrompts
    /\ \E user \in {"alice", "carol"}, n \in RequestedN :
         Commit(Submitted(State, user, n))
    /\ UNCHANGED <<cg, disk>>

\* worker w1 registers
CreateServer ==
    /\ "w1" \notin DOMAIN servers
    /\ Commit(create_server(State, "w1", Owner["w1"], <<>>))
    /\ UNCHANGED <<cg, disk>>

\* a worker checks in
CheckIn ==
    /\ \E w \in DOMAIN servers, model \in Models :
         Commit(check_in(State, w, model, DefaultMaxLength,
                         DefaultMaxContentLength, <<>>))
    /\ UNCHANGED <<cg, disk>>

\* a live worker may ask for work
CanPop(w) ==
    /\ w \in DOMAIN servers
    /\ ~KAIServer_is_stale(servers[w], now)
    /\ Len(gens) < MaxGens

\* only transfers between two different, named users reach transfer_kudos
CanTransfer(src, dst) ==
    /\ transfers < MaxTransfers
    /\ src # "anon" /\ dst # "anon" /\ src # dst

\* a live worker asks for work and is given the first prompt it can generate
Pop ==
    /\ Idle("t1")
    /\ \E w \in Workers : CanPop(w) /\ Commit(Run(begin_pop(State, "t1", w), "t1"))
    /\ UNCHANGED <<cg, disk>>

\* a worker posts the text of a generation it was given
Post ==
    /\ Idle("t1")
    /\ \E g \in 1..Len(gens), text \in Texts :
         Commit(Run(begin_post(State, "t1", g, text), "t1"))
    /\ UNCHANGED <<cg, disk>>

\* time passes
Tick ==
    /\ ticks < MaxTicks
    /\ \E d \in Durations : Commit(tick(State, d))
    /\ UNCHANGED <<cg, disk>>

\* every handler runs to its end before the next one starts
Next ==
    \/ SubmitPrompt
    \/ CreateServer
    \/ CheckIn
    \/ Pop
    \/ Post
    \/ Tick

Spec == Init /\ [][Next]_vars

(***************************************************************************)
(* Threads that run their handlers one statement at a time                 *)
(***************************************************************************)
PopLabels == {"pop_match", "sg_check", "sg_new", "sg_append", "sg_load_n",
              "sg_store_n", "sg_refresh"}

SetGenerationLabels == {"set_check", "set_store", "rc_perf", "rc_user", "rc_kudos",
                        "rf_check", "rf_del", "rf_append", "rc_counts", "rc_append",
                        "rc_trim", "ru_total", "ru_user", "ru_refresh"}

PostLabels == {"post_lookup"} \cup SetGenerationLabels

TransferLabels == {"tk_check", "tk_debit", "tk_credit"}

\* a request for work arrives at thread t
BeginPop(t) ==
    /\ Idle(t)
    /\ \E w \in Workers : CanPop(w) /\ Commit(begin_pop(State, t, w))
    /\ UNCHANGED <<cg, disk>>

\* thread t runs the next statement of the matcher or of start_generation
PopStep(t) ==
    /\ th[t].pc \in PopLabels
    /\ Commit(Step(State, t))
    /\ UNCHANGED <<cg, disk>>

\* a posted result arrives at thread t
BeginPost(t) ==
    /\ Idle(t)
    /\ \E g \in 1..Len(gens), text \in Texts : Commit(begin_post(State, t, g, text))
    /\ UNCHANGED <<cg, disk>>

\* thread t runs the next statement of the lookup or of set_generation
PostStep(t) ==
    /\ th[t].pc \in PostLabels
    /\ Commit(Step(State, t))
    /\ UNCHANGED <<cg, disk>>

\* a transfer request arrives at thread t
BeginTransfer(t) ==
    /\ Idle(t)
    /\ \E src \in Users, dst \in Users, amount \in Amounts :
         CanTransfer(src, dst) /\ Commit(begin_transfer(State, t, src, dst, amount))
    /\ UNCHANGED <<cg, disk>>

\* thread t runs the next statement of transfer_kudos
TransferStep(t) ==
    /\ th[t].pc \in TransferLabels
    /\ Commit(Step(State, t))
    /\ UNCHANGED <<cg, disk>>

\* the watcher of a prompt runs its next statement
Watch ==
    /\ \E p \in 1..Len(wps) :
         WatcherRunnable(State, p) /\ Commit(WatcherStep(State, p))
    /\ UNCHANGED <<cg, disk>>

\* time passes while a prompt waits
LongTick ==
    /\ ticks < MaxTicks
    /\ \E d \in WatchDurations : Commit(tick(State, d))
    /\ UNCHANGED <<cg, disk>>

\* worker check-ins served by two threads at once
NextDispatch ==
    \/ \E t \in Threads : BeginPop(t)
    \/ \E t \in Threads : PopStep(t)

SpecDispatch == InitDispatch /\ [][NextDispatch]_vars

\* results posted to two threads at once
NextSettle ==
    \/ \E t \in Threads : BeginPost(t)
    \/ \E t \in Threads : PostStep(t)

SpecSettle == InitSettle /\ [][NextSettle]_vars

\* a request handler next to the staleness watcher
NextWatch ==
    \/ BeginPop("t1")
    \/ PopStep("t1")
    \/ BeginPost("t1")
    \/ PostStep("t1")
    \/ Watch
    \/ LongTick

SpecWatch == InitWatch /\ [][NextWatch]_vars

\* transfers requested at two threads at once
NextTransfer ==
    \/ \E t \in Threads : BeginTransfer(t)
    \/ \E t \in Threads : TransferStep(t)

SpecTransfer == Init /\ [][NextTransfer]_vars


(***************************************************************************)
(* can_generate on its own: a worker and a prompt drawn from the sets      *)
(* below, and one call                                                     *)
(***************************************************************************)
WorkerSoftprompts == {<<>>, <<"story_v3", "chat_v1">>, <<"xyz">>}
PromptSoftprompts == {<<>>, <<"">>, <<"story_">>, <<"xyz">>, <<"abc", "chat">>,
                      <<"abc", "">>}
Lengths == {80, 512}
ContentLengths == {1024, 2048}

InitCanGenerate ==
    /\ StartBroker(Loaded(5000, <<>>))
    /\ \E w \in Workers, model \in Models, ml \in Lengths, mcl \in ContentLengths,
          sps \in WorkerSoftprompts,
          srvs \in SUBSET Workers, models \in SUBSET Models, pml \in Lengths,
          pmcl \in ContentLengths, psps \in PromptSoftprompts :
         cg = [NoCall EXCEPT
                 !.sv = [NewServer(Owner[w], w, sps) EXCEPT
                           !.last_check_in = <<0>>, !.model = model,
                           !.max_length = ml, !.max_content_length = mcl],
                 !.wp = NewPrompt("carol", 1, models, srvs, psps, pml, pmcl, 0)]

\* the worker is asked whether it can generate the prompt
CallCanGenerate ==
    /\ ~cg.called
    /\ LET r == can_generate(cg.sv, cg.wp)
       IN  cg' = [cg EXCEPT !.called = TRUE, !.is_matching = r.is_matching,
                            !.skipped_reason = r.skipped_reason]
    /\ UNCHANGED <<now, ticks, transfers, users, servers, wps, wpIndex, gens,
                   pgIndex, fulfilment_times, th, watch, disk>>

SpecCanGenerate == InitCanGenerate /\ [][CallCanGenerate]_vars


(***************************************************************************)
(* Properties                                                              *)
(***************************************************************************)
RECURSIVE SumKudos(_, _)
SumKudos(us, S) ==
    IF S = {} THEN 0
    ELSE LET u == CHOOSE x \in S : TRUE IN us[u].kudos + SumKudos(us, S \ {u})

\* C1: whenever no check-in is being served, every prompt has
\* n + len(processing_gens) equal to the n it was created with, and n >= 0.
C1_GenerationsConserved ==
    Quiescent =>
        \A p \in 1..Len(wps) :
            /\ wps[p].n + Len(wps[p].processing_gens) = wps[p].n_initial
            /\ wps[p].n >= 0

\* C2: of two set_generation calls that returned for the same generation, at
\* most one returned a character count; the other returned 0.
C2_SettledAtMostOnce ==
    \A t1 \in Threads, t2 \in Threads :
        ( /\ t1 # t2
          /\ th[t1].ret.op = "set_generation" /\ th[t1].ret.exc = ""
          /\ th[t2].ret.op = "set_generation" /\ th[t2].ret.exc = ""
          /\ th[t1].ret.id = th[t2].ret.id )
        => (th[t1].ret.val = 0 \/ th[t2].ret.val = 0)

\* generation g had no text and set_generation has now stored one and
\* returned
SettledNow(g) ==
    /\ gens[g].generation = <<>>
    /\ gens'[g].generation # <<>>
    /\ th'["t1"].ret.op = "set_generation"
    /\ th'["t1"].ret.exc = ""

\* the kudos values, in thousandths, that are whole hundredths
KudosGrid == {10 * i : i \in 0..100}

\* C3: a settlement of c characters under the model recorded in the
\* generation moves k = round(c*m/100, 2) kudos: -k for the submitter, +k for
\* the worker and for the worker's user; usage.chars and total_usage grow by
\* c; the sum of kudos over the users does not change.
C3_SettlementAccounting ==
    [][\A g \in 1..Len(gens) :
         SettledNow(g) =>
           LET c == Len(gens'[g].generation[1])
               m == ModelMultiplier[gens[g].model]
               p == gens[g].owner
               w == gens[g].server
               sub == wps[p].user
               own == servers[w].user
           IN  \E k \in KudosGrid :
                 /\ Abs(100 * k - c * m) <= 500
                 /\ th'["t1"].ret.val = c
                 /\ \A u \in Users :
                      users'[u].kudos = users[u].kudos
                                          + (IF u = own THEN k ELSE 0)
                                          - (IF u = sub THEN k ELSE 0)
                 /\ servers'[w].kudos = servers[w].kudos + k
                 /\ users'[sub].usage.chars = users[sub].usage.chars + c
                 /\ wps'[p].total_usage = wps[p].total_usage + c
                 /\ SumKudos(users', Users) = SumKudos(users, Users)
      ]_vars

\* a text was settled at second 1 for a generation whose worker had checked
\* in with another model at second 0, the submitter not being the worker's user
C3_Witness ==
    /\ th["t1"].ret.op = "set_generation"
    /\ th["t1"].ret.val > 0
    /\ LET g == th["t1"].ret.id
           w == gens[g].server
       IN  /\ servers[w].model # gens[g].model
           /\ servers[w].last_check_in = <<0>>
           /\ wps[gens[g].owner].last_process_time = 1
           /\ wps[gens[g].owner].user # servers[w].user

\* the five conditions of the matcher for worker sv and prompt wp
FiveConditions(sv, wp) ==
    /\ wp.servers = {} \/ sv.id \in wp.servers
    /\ wp.models = {} \/ sv.model \in wp.models
    /\ sv.max_content_length >= wp.max_content_length
    /\ sv.max_length >= wp.max_length
    /\ \E i \in 1..Len(wp.softprompts) :
         \/ wp.softprompts[i] = ""
         \/ \E j \in 1..Len(sv.softprompts) :
              IsSubstring(wp.softprompts[i], sv.softprompts[j])

\* C4: can_generate reports a match exactly when the five conditions hold.
C4_CanGenerateIffFiveConditions ==
    cg.called => (cg.is_matching <=> FiveConditions(cg.sv, cg.wp))

\* the prompt asks for "story_", the worker has "story_v3" and "chat_v1", and
\* the call reported a match
C4_Witness ==
    /\ cg.called
    /\ cg.is_matching
    /\ cg.wp.softprompts = <<"story_">>
    /\ cg.sv.softprompts = <<"story_v3", "chat_v1">>
    /\ cg.wp.servers = {cg.sv.id}

\* where prompt p stands in the prompts index
IndexPos(p) == CHOOSE i \in 1..Len(wpIndex) : wpIndex[i] = p

\* C5: get_waiting_wp_by_kudos returns exactly the indexed prompts with
\* n > 0, each once, the submitters' kudos non-increasing along the list and
\* prompts of equal kudos in the order of their activation.
C5_WaitingByKudos ==
    LET q == get_waiting_wp_by_kudos(State)
    IN  /\ \A p \in 1..Len(wps) :
             (InIndex(wpIndex, p) /\ wps[p].n > 0) <=> (\E i \in 1..Len(q) : q[i] = p)
        /\ \A i \in 1..Len(q), j \in 1..Len(q) : i # j => q[i] # q[j]
        /\ \A i \in 1..Len(q), j \in 1..Len(q) :
             i < j =>
               /\ SubmitterKudos(State, q[i]) >= SubmitterKudos(State, q[j])
               /\ SubmitterKudos(State, q[i]) = SubmitterKudos(State, q[j])
                    => IndexPos(q[i]) < IndexPos(q[j])

\* two prompts wait and the one activated later comes first
C5_Witness ==
    LET q == get_waiting_wp_by_kudos(State)
    IN  Len(q) = 2 /\ IndexPos(q[1]) > IndexPos(q[2])

\* C6: whenever no result is being settled, fulfilment_times has at most 10
\* entries and every worker's performances at most 20.
C6_RollingBuffersBounded ==
    Quiescent =>
        /\ Len(fulfilment_times) <= MaxFulfilmentTimes
        /\ \A w \in DOMAIN servers : Len(servers[w].performances) <= MaxPerformances

\* C7: a statement of set_generation run for a generation that is no longer
\* in the generations index changes no user, no worker and no statistics.
C7_DeletedGenerationChangesNothing ==
    [][\A t \in Threads :
         ( /\ th[t].pc \in SetGenerationLabels
           /\ th[t].gen \notin pgIndex
           /\ th'[t] # th[t] )
         => /\ users' = users
            /\ servers' = servers
            /\ fulfilment_times' = fulfilment_times
      ]_vars

\* C8: the watcher removes a prompt from the index only when at least 600 s
\* have passed since the prompt's last start_generation or record_usage.
C8_RemovedOnlyWhenStale ==
    [][\A p \in 1..Len(wps) :
         (InIndex(wpIndex, p) /\ ~InIndex(wpIndex', p))
         => now - wps[p].last_process_time >= StaleTime
      ]_vars

\* C9: every generation in the generations index has its owner in the
\* prompts index, and the watcher's delete raises no error.
C9_GenerationsHaveIndexedOwner ==
    /\ \A g \in pgIndex : InIndex(wpIndex, gens[g].owner)
    /\ \A p \in 1..Len(wps) : watch[p].pc # "KeyError"

\* C10: transfers never drive a balance below zero.
C10_NoOverdraft == \A u \in Users : users[u].kudos >= 0

(***************************************************************************)
(* Transfers asked for by API key and destination username.  A username    *)
(* string is a sequence of characters, so that split('#') and int() are    *)
(* computed as Python computes them.                                       *)
(***************************************************************************)
\* the order of Database.users.values()
UserOrder == <<"anon", "alice", "carol">>

\* User.username, User.id and User.api_key of each user
Username == [u \in Users |-> IF u = "anon" THEN <<"A">>
                             ELSE IF u = "alice" THEN <<"a">> ELSE <<"c">>]

UserId == [u \in Users |-> IF u = "anon" THEN 0 ELSE IF u = "alice" THEN 1 ELSE 2]

ApiKey == [u \in Users |-> IF u = "anon" THEN "0000000000"
                           ELSE IF u = "alice" THEN "key-a" ELSE "key-c"]

\* the API keys a request may carry: the three above and one of nobody
ApiKeys == {"0000000000", "key-a", "key-c", "key-x"}

\* the destination strings a request may carry: c#2 a#1 A#0 b#1 c#1 c b c#x
\* c#02 c#2#9
DestUsernames ==
    { <<"c", "#", "2">>, <<"a", "#", "1">>, <<"A", "#", "0">>, <<"b", "#", "1">>,
      <<"c", "#", "1">>, <<"c">>, <<"b">>, <<"c", "#", "x">>,
      <<"c", "#", "0", "2">>, <<"c", "#", "2", "#", "9">> }

\* str.split(sep)
RECURSIVE split(_, _)
split(str, sep) ==
    IF \A i \in 1..Len(str) : str[i] # sep THEN <<str>>
    ELSE LET k == CHOOSE i \in 1..Len(str) :
                      str[i] = sep /\ \A j \in 1..(i - 1) : str[j] # sep
         IN  <<SubSeq(str, 1, k - 1)>> \o split(SubSeq(str, k + 1, Len(str)), sep)

DigitValue == [c \in {"0", "1", "2", "9"} |-> IF c = "0" THEN 0 ELSE IF c = "1" THEN 1
                                              ELSE IF c = "2" THEN 2 ELSE 9]

\* int(str) raises ValueError unless str is a run of digits
IsInt(str) == Len(str) > 0 /\ \A i \in 1..Len(str) : str[i] \in DOMAIN DigitValue

RECURSIVE int(_)
int(str) ==
    IF Len(str) = 1 THEN DigitValue[str[1]]
    ELSE 10 * int(SubSeq(str, 1, Len(str) - 1)) + DigitValue[str[Len(str)]]

\* Database.find_user_by_api_key (ALLOW_ANONYMOUS is True)
find_user_by_api_key(api_key) ==
    LET hits == {i \in 1..Len(UserOrder) : ApiKey[UserOrder[i]] = api_key}
    IN  IF hits = {} THEN <<>>
        ELSE <<UserOrder[CHOOSE i \in hits : \A j \in hits : i <= j]>>

\* Database.find_user_by_username, the loop from the i-th user on: the user
\* found (<<>> for None) or the exception raised
RECURSIVE find_user_from(_, _)
find_user_from(username, i) ==
    IF i > Len(UserOrder) THEN [user |-> <<>>, exc |-> ""]
    ELSE LET user == UserOrder[i]
             uniq_username == split(username, "#")
         IN  IF Username[user] # uniq_username[1] THEN find_user_from(username, i + 1)
             ELSE IF Len(uniq_username) < 2 THEN [user |-> <<>>, exc |-> "IndexError"]
             ELSE IF ~IsInt(uniq_username[2]) THEN [user |-> <<>>, exc |-> "ValueError"]
             ELSE IF UserId[user] = int(uniq_username[2])
                  THEN [user |-> <<user>>, exc |-> ""]
             ELSE find_user_from(username, i + 1)

find_user_by_username(username) == find_user_from(username, 1)

\* Database.transfer_kudos_to_username
transfer_kudos_to_username(s, t, source_user, dest_username, amount) ==
    LET found == find_user_by_username(dest_username)
    IN  IF found.exc # ""
        THEN Return(s, t, Result("transfer_kudos_to_username", 0, 0, "", found.exc))
        ELSE IF found.user = <<>>
        THEN Return(s, t, Result("transfer_kudos_to_username", 0, 0,
                                 "Invalid target username.", ""))
        ELSE IF found.user[1] = "anon"
        THEN Return(s, t, Result("transfer_kudos_to_username", 0, 0,
                                 "Tried to burn kudos via sending to Anonymous. Assuming PEBKAC and aborting.", ""))
        ELSE IF found.user[1] = source_user
        THEN Return(s, t, Result("transfer_kudos_to_username", 0, 0,
                                 "Cannot send kudos to yourself, ya monkey!", ""))
        ELSE Run(begin_transfer(s, t, source_user, found.user[1], amount), t)

\* Database.transfer_kudos_from_apikey_to_username
transfer_kudos_from_apikey_to_username(s, t, source_api_key, dest_username, amount) ==
    LET source_user == find_user_by_api_key(source_api_key)
    IN  IF source_user = <<>>
        THEN Return(s, t, Result("transfer_kudos_from_apikey_to_username", 0, 0,
                                 "Invalid API Key.", ""))
        ELSE IF source_user[1] = "anon"
        THEN Return(s, t, Result("transfer_kudos_from_apikey_to_username", 0, 0,
                                 "You cannot transfer Kudos from Anonymous, smart-ass.", ""))
        ELSE transfer_kudos_to_username(s, t, source_user[1], dest_username, amount)

\* the amounts a request may carry, in thousandths of a kudos
ApiAmounts == Amounts \cup {1000}

\* a transfer request with an API key and a destination string is served
ApiTransfer ==
    /\ Idle("t1")
    /\ transfers < MaxTransfers
    /\ \E key \in ApiKeys, dest \in DestUsernames, amount \in ApiAmounts :
         Commit(transfer_kudos_from_apikey_to_username(State, "t1", key, dest, amount))
    /\ UNCHANGED <<cg, disk>>

SpecApiTransfer == Init /\ [][ApiTransfer]_vars

\* C11: a transfer by API key and username never raises; when it grants
\* nothing (amount 0 returned) no user changes and the reason is not 'OK';
\* when it grants, the reason is 'OK', the source is debited and the
\* destination credited by the amount returned.
C11_TransferRejectsCleanly ==
    [][LET r == th'["t1"].ret
       IN  /\ r.exc = ""
           /\ r.val = 0 => (users' = users /\ r.reason # "OK")
           /\ r.val # 0 =>
                /\ r.reason = "OK"
                /\ \E src \in Users \ {"anon"}, dst \in Users \ {"anon"} :
                     /\ src # dst
                     /\ users'[src].kudos = users[src].kudos - r.val
                     /\ users'[dst].kudos = users[dst].kudos + r.val
      ]_vars

\* C12: the volume counters are never negative: every user's 'gifted' and
\* 'received' and every worker's 'generated' and 'uptime' (a granted
\* transfer of a raises the source's 'gifted' by a).
C12_VolumeCountersNonNegative ==
    /\ \A u \in Users : /\ users[u].kudos_details.gifted >= 0
                        /\ users[u].kudos_details.received >= 0
    /\ \A w \in DOMAIN servers : /\ servers[w].kudos_details.generated >= 0
                                 /\ servers[w].kudos_details.uptime >= 0

(***************************************************************************)
(* Concurrent transfers with the read and the write of User.modify_kudos   *)
(* as separate steps                                                       *)
(***************************************************************************)
LedgerLabels ==
    {"tkf_check", "tkf_debit_load", "tkf_debit_store", "tkf_debit_details",
     "tkf_credit_load", "tkf_credit_store", "tkf_credit_details", "tkf_return"}

\* a transfer request arrives at thread t
BeginLedgerTransfer(t) ==
    /\ Idle(t)
    /\ \E src \in Users, dst \in Users, amount \in Amounts :
         /\ CanTransfer(src, dst)
         /\ Commit(Goto(begin_transfer(State, t, src, dst, amount), t, "tkf_check"))
    /\ UNCHANGED <<cg, disk>>

\* thread t runs its next statement
LedgerStep(t) ==
    /\ th[t].pc \in LedgerLabels
    /\ Commit(Step(State, t))
    /\ UNCHANGED <<cg, disk>>

NextLedger ==
    \/ \E t \in Threads : BeginLedgerTransfer(t)
    \/ \E t \in Threads : LedgerStep(t)

SpecLedger == Init /\ [][NextLedger]_vars

\* C13: every user's kudos equals the sum of the signed deltas applied to
\* that user since creation: no delta is lost or applied twice.
C13_KudosIsSumOfDeltas == \A u \in Users : users[u].kudos = users[u].ledger

(***************************************************************************)
(* Worker staleness over long spans of time: two registered workers, check *)
(* ins, and the clock moving by seconds, minutes or more than a day        *)
(***************************************************************************)
\* the seconds that may pass between two requests
StaleDurations == {10, 301, 86410}

\* w1 and w2 are registered and have not checked in yet
InitStale ==
    Start(create_server(create_server(Loaded(5000, <<>>), "w1", Owner["w1"], <<>>),
                        "w2", Owner["w2"], <<>>))

\* a registered worker checks in
StaleCheckIn ==
    /\ \E w \in DOMAIN servers, model \in Models :
         Commit(check_in(State, w, model, DefaultMaxLength,
                         DefaultMaxContentLength, <<>>))
    /\ UNCHANGED <<cg, disk>>

\* time passes
Elapse ==
    /\ ticks < MaxTicks
    /\ \E d \in StaleDurations : Commit(tick(State, d))
    /\ UNCHANGED <<cg, disk>>

NextStale ==
    \/ StaleCheckIn
    \/ Elapse

SpecStale == InitStale /\ [][NextStale]_vars

\* C14: a worker is stale exactly when it has never checked in or more than
\* 300 seconds have passed since its last check-in.
C14_StaleIffOver300Seconds ==
    \A w \in DOMAIN servers :
        KAIServer_is_stale(servers[w], now)
          <=> \/ servers[w].last_check_in = <<>>
              \/ now - servers[w].last_check_in[1] > ServerStaleTime

(***************************************************************************)
(* Uptime rewards: worker w1 stays live, checking in every 5 or 30 seconds *)
(***************************************************************************)
\* the seconds between two check-ins of a live worker
UptimeDurations == {5, 30}

\* the last second at which a check-in is looked at
UptimeHorizon == 660

\* w1 has registered and checked in at second 0
InitUptime == Start(Joined(Loaded(5000, <<>>), "w1", "m2"))

\* d seconds after its last check-in w1 checks in again
LiveCheckIn ==
    /\ \E d \in UptimeDurations, model \in Models :
         /\ now + d <= UptimeHorizon
         /\ Commit(check_in(tick(State, d), "w1", model, DefaultMaxLength,
                            DefaultMaxContentLength, <<>>))
    /\ UNCHANGED <<cg, disk>>

SpecUptime == InitUptime /\ [][LiveCheckIn]_vars

\* C15 as stated: 600 to 605 s after its first check-in a worker of
\* multiplier 2.75 that stayed live has received one uptime grant of 1.00.
C15_OneGrantWithin605Seconds ==
    ( /\ now >= 600 /\ now <= 605
      /\ servers["w1"].model = "m2" )
    => /\ servers["w1"].kudos_details.uptime = 1000
       /\ servers["w1"].last_reward_uptime = servers["w1"].uptime

\* C15, amended: a check-in of a live worker adds the elapsed seconds to
\* uptime and grants uptime kudos exactly when uptime - last_reward_uptime >
\* 600 then; the grant is round(multiplier/2.75, 2) (1.00 for 2.75), goes to
\* the worker ('uptime') and to its user ('accumulated'), and sets
\* last_reward_uptime to uptime.  So no grant is received by a check-in at
\* or before second 600: with check-ins every 30 s the first is at 630.
C15_GrantWhenUptimeExceeds600 ==
    /\ [](servers["w1"].kudos_details.uptime > 0 => now > 600)
    /\ [][LET sv == servers["w1"]
              nsv == servers'["w1"]
              u == sv.user
              up == sv.uptime + (now' - sv.last_check_in[1])
              k == IF nsv.model = "m2" THEN 1000 ELSE uptime_kudos(nsv.model)
          IN  /\ nsv.uptime = up
              /\ IF up - sv.last_reward_uptime > 600
                 THEN /\ nsv.kudos = sv.kudos + k
                      /\ nsv.kudos_details.uptime = sv.kudos_details.uptime + k
                      /\ users'[u].kudos = users[u].kudos + k
                      /\ users'[u].kudos_details.accumulated =
                             users[u].kudos_details.accumulated + k
                      /\ nsv.last_reward_uptime = up
                 ELSE /\ nsv.kudos = sv.kudos
                      /\ nsv.kudos_details = sv.kudos_details
                      /\ users' = users
                      /\ nsv.last_reward_uptime = sv.last_reward_uptime
         ]_vars

\* w1 declared the model of multiplier 2.75 at every check-in seen so far and
\* received its grant of 1.00 at the check-in of second 630
C15_Witness ==
    /\ now = 630
    /\ servers["w1"].model = "m2"
    /\ servers["w1"].kudos_details.uptime = 1000
    /\ servers["w1"].last_reward_uptime = 630
    /\ servers["w1"].uptime = 630
    /\ users["alice"].kudos = 6000

(***************************************************************************)
(* Persistence: the snapshot written by write_files_to_disk and the state  *)
(* Database.__init__ builds from it                                        *)
(***************************************************************************)
\* KAIServer.serialize; a worker that never checked in has no model,
\* max_length, max_content_length or last_check_in attribute
serialize_server(sv) ==
    IF sv.last_check_in = <<>> THEN [exc |-> "AttributeError"]
    ELSE [exc |-> "", oauth_id |-> sv.user, name |-> sv.id, model |-> sv.model,
          max_length |-> sv.max_length,
          max_content_length |-> sv.max_content_length,
          contributions |-> sv.contributions, fulfilments |-> sv.fulfilments,
          kudos |-> sv.kudos, kudos_details |-> sv.kudos_details,
          performances |-> sv.performances, last_check_in |-> sv.last_check_in[1],
          id |-> sv.id, softprompts |-> sv.softprompts, uptime |-> sv.uptime]

\* KAIServer.__init__ followed by KAIServer.deserialize
deserialize_server(saved_dict) ==
    [NewServer(saved_dict.oauth_id, saved_dict.name, saved_dict.softprompts)
       EXCEPT !.model = saved_dict.model,
              !.max_length = saved_dict.max_length,
              !.max_content_length = saved_dict.max_content_length,
              !.contributions = saved_dict.contributions,
              !.fulfilments = saved_dict.fulfilments,
              !.kudos = saved_dict.kudos,
              !.kudos_details = saved_dict.kudos_details,
              !.performances = saved_dict.performances,
              !.last_check_in = <<saved_dict.last_check_in>>,
              !.uptime = saved_dict.uptime]

\* User.serialize
serialize_user(u) ==
    [kudos |-> u.kudos, kudos_details |-> u.kudos_details,
     contributions |-> u.contributions, usage |-> u.usage]

\* User.__init__ followed by User.deserialize
deserialize_user(saved_dict) ==
    [NewUser(saved_dict.kudos)
       EXCEPT !.kudos_details = saved_dict.kudos_details,
              !.contributions = saved_dict.contributions,
              !.usage = saved_dict.usage]

\* the workers write_files_to_disk serializes
Persisted(srvs) == {w \in DOMAIN srvs : srvs[w].user # "anon"}

\* Database.write_files_to_disk: the three files, or the exception raised
write_files_to_disk(s) ==
    IF \E w \in Persisted(s.servers) : serialize_server(s.servers[w]).exc # ""
    THEN [exc |-> "AttributeError"]
    ELSE [exc |-> "",
          servers |-> [w \in Persisted(s.servers) |-> serialize_server(s.servers[w])],
          stats |-> s.fulfilment_times,
          users |-> [u \in Users |-> serialize_user(s.users[u])]]

\* Database.__init__ of a new process that finds the three files
load_files(s, files) ==
    [Loaded(0, files.stats)
       EXCEPT !.now = s.now, !.ticks = s.ticks, !.transfers = s.transfers,
              !.users = [u \in Users |-> deserialize_user(files.users[u])],
              !.servers = [w \in DOMAIN files.servers |->
                             deserialize_server(files.servers[w])]]

\* C16: the snapshot of the state can be written, and the state loaded from
\* it has the same users on every persisted field, exactly the workers not
\* owned by the anonymous user, each with the same persisted fields and the
\* same owner, and the same stats; writing the loaded state gives the same
\* files.
C16_SnapshotRoundTrip ==
    LET files == write_files_to_disk(State)
    IN  /\ files.exc = ""
        /\ LET r == load_files(State, files)
           IN  /\ \A u \in Users : serialize_user(r.users[u]) = serialize_user(users[u])
               /\ DOMAIN r.servers = {w \in DOMAIN servers : servers[w].user # "anon"}
               /\ \A w \in DOMAIN r.servers :
                    /\ r.servers[w].user = servers[w].user
                    /\ serialize_server(r.servers[w]) = serialize_server(servers[w])
               /\ r.fulfilment_times = fulfilment_times
               /\ write_files_to_disk(r) = files


(***************************************************************************)
(* The writer thread (Database.write_files) beside one request handler     *)
(***************************************************************************)
\* write_files_to_disk, lines 503-509: the workers are serialised and
\* db/servers.json is written
wf_servers ==
    /\ disk.pc = "wf_servers"
    /\ disk' = IF \E w \in Persisted(servers) : serialize_server(servers[w]).exc # ""
               THEN [disk EXCEPT !.pc = "dead", !.exc = "AttributeError"]
               ELSE [disk EXCEPT
                       !.pc = "wf_stats", !.written = FALSE,
                       !.servers = [w \in Persisted(servers) |->
                                      serialize_server(servers[w])]]
    /\ UNCHANGED <<now, ticks, transfers, users, servers, wps, wpIndex, gens,
                   pgIndex, fulfilment_times, th, watch, cg>>

\* lines 510-511: db/stats.json is written
wf_stats ==
    /\ disk.pc = "wf_stats"
    /\ disk' = [disk EXCEPT !.pc = "wf_users", !.stats = fulfilment_times]
    /\ UNCHANGED <<now, ticks, transfers, users, servers, wps, wpIndex, gens,
                   pgIndex, fulfilment_times, th, watch, cg>>

\* lines 512-514: the users are serialised and db/users.json is written;
\* the pass is over and the thread sleeps until the next one
wf_users ==
    /\ disk.pc = "wf_users"
    /\ disk' = [disk EXCEPT !.pc = "wf_servers", !.written = TRUE,
                            !.users = [u \in Users |-> serialize_user(users[u])]]
    /\ UNCHANGED <<now, ticks, transfers, users, servers, wps, wpIndex, gens,
                   pgIndex, fulfilment_times, th, watch, cg>>

write_files == wf_servers \/ wf_stats \/ wf_users

\* one handler thread posts the results while the writer runs
NextSnapshot ==
    \/ BeginPost("t1")
    \/ PostStep("t1")
    \/ write_files

SpecSnapshot == InitSettle /\ [][NextSnapshot]_vars

\* the fulfilments of the workers of a user in db/servers.json
RECURSIVE SumFulfilments(_, _)
SumFulfilments(saved, ws) ==
    IF ws = {} THEN 0
    ELSE LET w == CHOOSE x \in ws : TRUE
         IN  saved[w].fulfilments + SumFulfilments(saved, ws \ {w})

\* C17: in every snapshot that write_files_to_disk has finished, the
\* fulfillments of each non-anonymous user in db/users.json are the sum of
\* the fulfilments of that user's workers in db/servers.json.
C17_SnapshotConsistentCut ==
    disk.written =>
        \A u \in Users \ {"anon"} :
            disk.users[u].contributions.fulfillments
                = SumFulfilments(disk.servers,
                                 {w \in DOMAIN disk.servers : disk.servers[w].oauth_id = u})


\* C18: a result posted in the second in which its generation was started
\* raises no error, and no generation is left completed (its text stored)
\* without its accounting: each worker has as many fulfilments as it has
\* completed generations.
C18_SameSecondPostSettles ==
    /\ \A t \in Threads : th[t].ret.exc # "ZeroDivisionError"
    /\ \A w \in DOMAIN servers :
         servers[w].fulfilments
           = Cardinality({g \in 1..Len(gens) :
                            /\ gens[g].server = w
                            /\ ProcessingGeneration_is_completed(gens[g])})


(***************************************************************************)
(* The inventory of the workers                                            *)
(***************************************************************************)
\* Database.get_available_models over the workers ws: model -> how many
RECURSIVE get_available_models_of(_, _, _)
get_available_models_of(srvs, ws, t) ==
    IF ws = {} THEN [m \in {} |-> 0]
    ELSE LET w == CHOOSE x \in ws : TRUE
             models_ret == get_available_models_of(srvs, ws \ {w}, t)
             model == srvs[w].model
         IN  IF KAIServer_is_stale(srvs[w], t) THEN models_ret
             ELSE [m \in DOMAIN models_ret \cup {model} |->
                     IF m = model
                     THEN (IF m \in DOMAIN models_ret THEN models_ret[m] ELSE 0) + 1
                     ELSE models_ret[m]]

get_available_models(srvs, t) == get_available_models_of(srvs, DOMAIN srvs, t)

\* Database.count_active_servers
count_active_servers(srvs, t) ==
    Cardinality({w \in DOMAIN srvs : ~KAIServer_is_stale(srvs[w], t)})

\* the prompts a worker may be matched against
WaitingPrompts ==
    {NewPrompt("carol", 1, models, srvs, softprompts, DefaultMaxLength,
               DefaultMaxContentLength, 0) :
        models \in {{}, {"m1"}}, srvs \in {{}, {"w1"}},
        softprompts \in {<<"">>, <<"xyz">>}}

\* C19: a stale worker is still in the workers index, is counted neither by
\* get_available_models nor by count_active_servers, and, once it has the
\* attributes of a check-in, can_generate reports no match for it on any
\* prompt.
C19_StaleWorkerInvisibleButKept ==
    /\ DOMAIN servers = {"w1", "w2"}
    /\ LET active == {w \in DOMAIN servers : ~KAIServer_is_stale(servers[w], now)}
           inventory == get_available_models(servers, now)
       IN  /\ count_active_servers(servers, now) = Cardinality(active)
           /\ DOMAIN inventory = {servers[w].model : w \in active}
           /\ \A m \in DOMAIN inventory :
                inventory[m] = Cardinality({w \in active : servers[w].model = m})
    /\ \A w \in DOMAIN servers :
         (KAIServer_is_stale(servers[w], now) /\ servers[w].last_check_in # <<>>)
           => \A wp \in WaitingPrompts : ~can_generate(servers[w], wp).is_matching


(***************************************************************************)
(* Result posts that may carry the empty string                            *)
(***************************************************************************)
MaxFulfilments == 3

PostedTexts == Texts \cup {""}

\* a worker posts a text, possibly empty, for one of the generations
PostText ==
    /\ Idle("t1")
    /\ \E g \in 1..Len(gens), text \in PostedTexts :
         /\ servers[gens[g].server].fulfilments < MaxFulfilments
         /\ Commit(Run(begin_post(State, "t1", g, text), "t1"))
    /\ UNCHANGED <<cg, disk>>

SpecPostText == InitSettle /\ [][PostText]_vars

\* C20: every worker has at most as many fulfilments as generations were
\* spawned bound to it, and every user at most as many usage requests as
\* generations were spawned from that user's prompts.
C20_AccountingWithinDispatch ==
    /\ \A w \in DOMAIN servers :
         servers[w].fulfilments
           <= Cardinality({g \in 1..Len(gens) : gens[g].server = w})
    /\ \A u \in Users :
         users[u].usage.requests
           <= Cardinality({g \in 1..Len(gens) : wps[gens[g].owner].user = u})


(***************************************************************************)
(* Transfers of any amount through the three entry points                  *)
(***************************************************************************)
\* the amounts a caller may pass: positive, zero or negative
SignedAmounts == ApiAmounts \cup {0, -3000}

\* Database.transfer_kudos is called with two users
TransferKudos ==
    /\ Idle("t1")
    /\ \E src \in Users, dst \in Users, amount \in SignedAmounts :
         /\ CanTransfer(src, dst)
         /\ Commit(Run(begin_transfer(State, "t1", src, dst, amount), "t1"))
    /\ UNCHANGED <<cg, disk>>

\* Database.transfer_kudos_to_username is called with a user and a string
TransferKudosToUsername ==
    /\ Idle("t1")
    /\ transfers < MaxTransfers
    /\ \E src \in Users \ {"anon"}, dest \in DestUsernames, amount \in SignedAmounts :
         Commit(transfer_kudos_to_username(State, "t1", src, dest, amount))
    /\ UNCHANGED <<cg, disk>>

\* Database.transfer_kudos_from_apikey_to_username is called
TransferKudosFromApikey ==
    /\ Idle("t1")
    /\ transfers < MaxTransfers
    /\ \E key \in ApiKeys, dest \in DestUsernames, amount \in SignedAmounts :
         Commit(transfer_kudos_from_apikey_to_username(State, "t1", key, dest, amount))
    /\ UNCHANGED <<cg, disk>>

NextSignedTransfer ==
    \/ TransferKudos
    \/ TransferKudosToUsername
    \/ TransferKudosFromApikey

SpecSignedTransfer == Init /\ [][NextSignedTransfer]_vars

\* C21: in every transfer call, the user the call took as its source (the
\* one whose 'gifted' detail it wrote) has no more kudos than before, the
\* user it took as its destination (the one whose 'received' detail it
\* wrote) has no less, and every other user has the same kudos.
C21_TransferOnlySourceToDest ==
    [][\A u \in Users :
         LET source == users'[u].kudos_details.gifted # users[u].kudos_details.gifted
             dest == users'[u].kudos_details.received # users[u].kudos_details.received
         IN  /\ source => users'[u].kudos <= users[u].kudos
             /\ dest => users'[u].kudos >= users[u].kudos
             /\ (~source /\ ~dest) => users'[u].kudos = users[u].kudos
      ]_vars


(***************************************************************************)
(* The writer thread beside the registration and check-in of the workers   *)
(***************************************************************************)
NextWriter ==
    \/ CreateServer
    \/ CheckIn
    \/ Tick
    \/ write_files

SpecWriter == Init /\ [][NextWriter]_vars

\* C22: no pass of write_files_to_disk raises, so the writer thread is
\* never ended by an exception.
C22_WriterNeverDies == disk.pc # "dead" /\ disk.exc = ""


(***************************************************************************)
(* A broker restart between the check-ins of a live worker                 *)
(***************************************************************************)
\* the process ends after a pass of write_files_to_disk and a new process
\* builds its Database from the three files
Restart ==
    /\ LET files == write_files_to_disk(State)
       IN  /\ files.exc = ""
           /\ Commit(load_files(State, files))
    /\ UNCHANGED <<cg, disk>>

NextRestart ==
    \/ LiveCheckIn
    \/ Restart

SpecRestart == InitUptime /\ [][NextRestart]_vars

\* C23: last_reward_uptime stays between 0 and uptime, and a check-in
\* grants uptime kudos only for more than 600 s of uptime accrued since the
\* previous grant or the creation: the worker's first grant comes after
\* second 600 and a further grant after second 1200, a restart of the
\* broker in between or not.
C23_GrantOnlyForAccruedUptime ==
    /\ [](/\ 0 <= servers["w1"].last_reward_uptime
          /\ servers["w1"].last_reward_uptime <= servers["w1"].uptime)
    /\ [][servers'["w1"].kudos_details.uptime > servers["w1"].kudos_details.uptime
            => /\ now' > UptimeRewardThreshold
               /\ servers["w1"].kudos_details.uptime > 0
                    => now' > 2 * UptimeRewardThreshold
         ]_vars

====
